---- MODULE Spec2Model ----
(***************************************************************************)
(* Guest-list manager (app.py, setup_db.py): one SQLite table `invitados`, *)
(* its schema scripts, the trigger trg_invitados_updated_at, the five      *)
(* data-access functions and the Streamlit handlers that call them.        *)
(*                                                                         *)
(* Text is a sequence of one-character strings.  A nullable SQL / Python   *)
(* value is NULL (= <<>>) or Some(v) (= <<v>>).                            *)
(***************************************************************************)
EXTENDS Integers, Sequences, FiniteSets, TLC

VARIABLES db, tabla, seq, now, last, df, kpi

vars == <<db, tabla, seq, now, last, df, kpi>>

\* ---------------------------------------------------------------- bounds
\* Largest id AUTOINCREMENT hands out in a run of the model.
MaxId == 2
\* Largest value of the wall clock (CURRENT_TIMESTAMP, in seconds).
MaxClock == 1

\* ------------------------------------------------------- nullable values
NULL == <<>>
Some(v) == <<v>>

\* ------------------------------------------------------------------ text
\* str.strip(): drop leading and trailing whitespace.
RECURSIVE lstrip(_)
lstrip(s) == IF s # <<>> /\ Head(s) = " " THEN lstrip(Tail(s)) ELSE s

RECURSIVE rstrip(_)
rstrip(s) ==
    IF s # <<>> /\ s[Len(s)] = " " THEN rstrip(SubSeq(s, 1, Len(s) - 1)) ELSE s

strip(s) == rstrip(lstrip(s))

\* `x.strip() if x else None`: an empty str is falsy, any other str is truthy.
StripOrNone(x) == IF x # <<>> THEN Some(strip(x)) ELSE NULL

\* int(bool)
IntOfBool(b) == IF b THEN 1 ELSE 0

\* Byte value of a character (BINARY collation compares bytes).
Code(c) ==
    CASE c = " " -> 32
      [] c = "%" -> 37
      [] c = "5" -> 53
      [] c = "A" -> 65
      [] c = "B" -> 66
      [] c = "_" -> 95
      [] c = "a" -> 97
      [] c = "b" -> 98

\* SQLite's LIKE folds the case of ASCII letters only.
Fold(c) ==
    CASE c = "A" -> "a"
      [] c = "B" -> "b"
      [] OTHER -> c

\* t LIKE p, for non-NULL t: % matches any run of characters, _ exactly one
\* character, every other character matches itself up to ASCII case.
RECURSIVE Like(_, _)
Like(t, p) ==
    IF p = <<>> THEN t = <<>>
    ELSE IF Head(p) = "%"
         THEN Like(t, Tail(p)) \/ (t # <<>> /\ Like(Tail(t), p))
    ELSE IF t = <<>> THEN FALSE
    ELSE IF Head(p) = "_" THEN Like(Tail(t), Tail(p))
    ELSE Fold(Head(p)) = Fold(Head(t)) /\ Like(Tail(t), Tail(p))

\* A nullable column LIKE p is TRUE only for a non-NULL value that matches
\* (NULL LIKE p is NULL, and a WHERE clause keeps a row only when TRUE).
ColLike(v, p) == v # NULL /\ Like(v[1], p)

\* memcmp order of two texts (ORDER BY under the BINARY collation).
RECURSIVE StrLess(_, _)
StrLess(a, b) ==
    IF b = <<>> THEN FALSE
    ELSE IF a = <<>> THEN TRUE
    ELSE IF Code(Head(a)) # Code(Head(b)) THEN Code(Head(a)) < Code(Head(b))
    ELSE StrLess(Tail(a), Tail(b))

\* ---------------------------------------------------------------- schema
TrgName == "trg_invitados_updated_at"

LookupIndexes ==
    { "idx_invitados_nombre", "idx_invitados_apellidos",
      "idx_invitados_telefono", "idx_invitados_correo" }

\* A store file that holds nothing yet.
EmptyStore ==
    [tabla |-> FALSE, indices |-> {}, triggers |-> {}, journal |-> "delete"]

CreateTable(d) == [d EXCEPT !.tabla = TRUE]
CreateIndexes(d) == [d EXCEPT !.indices = @ \cup LookupIndexes]
DropTrigger(d) == [d EXCEPT !.triggers = @ \ {TrgName}]
CreateTrigger(d) == [d EXCEPT !.triggers = @ \cup {TrgName}]

\* A plausible slip: the trigger is dropped and not created again.
init_db_no_recreate(d) == DropTrigger(CreateTable(d))

\* app.py init_db: the table and the trigger, no index.
init_db(d) == CreateTrigger(DropTrigger(CreateTable(d)))

\* setup_db.py SCHEMA_SQL, run by main().
SCHEMA_SQL(d) ==
    CreateTrigger(DropTrigger(CreateIndexes(CreateTable(
        [d EXCEPT !.journal = "wal"]))))

\* ------------------------------------------------------------------ rows
\* INSERT INTO invitados (nombre, ..., acompanantes) VALUES (?, ?, ?, ?, ?, ?)
\* with id from AUTOINCREMENT and both timestamps DEFAULT CURRENT_TIMESTAMP.
insertar_invitado(t, id, ts, nombre, apellidos, telefono, correo, asistira, acompanantes) ==
    t \cup { [ id           |-> id,
               nombre       |-> strip(nombre),
               apellidos    |-> strip(apellidos),
               telefono     |-> StripOrNone(telefono),
               correo       |-> StripOrNone(correo),
               asistira     |-> IntOfBool(asistira),
               acompanantes |-> acompanantes,
               created_at   |-> ts,
               updated_at   |-> ts ] }

\* A plausible slip: the nested UPDATE of the trigger without its WHERE.
TrgNoWhere(t, old, new, ts) ==
    IF new.updated_at = old.updated_at
    THEN { [r EXCEPT !.updated_at = ts] : r \in t }
    ELSE t

\* A plausible slip: the WHEN condition of the trigger negated.
TrgWhenNegated(t, old, new, ts) ==
    IF new.updated_at # old.updated_at
    THEN { IF r.id = old.id THEN [r EXCEPT !.updated_at = ts] ELSE r : r \in t }
    ELSE t

\* trg_invitados_updated_at: AFTER UPDATE, FOR EACH ROW,
\* WHEN NEW.updated_at = OLD.updated_at: UPDATE ... SET updated_at =
\* CURRENT_TIMESTAMP WHERE id = OLD.id.  The nested UPDATE does not fire the
\* trigger again (recursive triggers are off in SQLite unless asked for).
TrgUpdatedAt(t, old, new, ts) ==
    IF new.updated_at = old.updated_at
    THEN { IF r.id = old.id THEN [r EXCEPT !.updated_at = ts] ELSE r : r \in t }
    ELSE t

\* UPDATE invitados SET nombre = ?, ... , acompanantes = ? WHERE id = ?
\* followed, for the row it changed, by the trigger when it is installed.
actualizar_invitado(t, triggers, ts, id_, nombre, apellidos, telefono, correo, asistira, acompanantes) ==
    LET Set(r) == [r EXCEPT !.nombre       = strip(nombre),
                            !.apellidos    = strip(apellidos),
                            !.telefono     = StripOrNone(telefono),
                            !.correo       = StripOrNone(correo),
                            !.asistira     = IntOfBool(asistira),
                            !.acompanantes = acompanantes]
        hit == { r \in t : r.id = id_ }
        t1  == { IF r.id = id_ THEN Set(r) ELSE r : r \in t }
    IN  IF hit = {} \/ TrgName \notin triggers
        THEN t1
        ELSE LET old == CHOOSE r \in hit : TRUE
             IN  TrgUpdatedAt(t1, old, Set(old), ts)

\* DELETE FROM invitados WHERE id = ?
eliminar_invitado(t, id_) == { r \in t : r.id # id_ }

\* ORDER BY apellidos, nombre, id DESC
RowBefore(r, o) ==
    \/ StrLess(r.apellidos, o.apellidos)
    \/ r.apellidos = o.apellidos /\ StrLess(r.nombre, o.nombre)
    \/ r.apellidos = o.apellidos /\ r.nombre = o.nombre /\ r.id > o.id

RECURSIVE OrderBy(_)
OrderBy(S) ==
    IF S = {} THEN <<>>
    ELSE LET m == CHOOSE r \in S : \A o \in S \ {r} : RowBefore(r, o)
         IN  <<m>> \o OrderBy(S \ {m})

\* listar_invitados: the pattern, the WHERE clause, the ORDER BY.
listar_invitados(t, filtro_texto, solo_confirmados) ==
    LET filtro == IF filtro_texto # <<>>
                  THEN <<"%">> \o strip(filtro_texto) \o <<"%">>
                  ELSE <<"%">>
    IN  OrderBy({ r \in t :
            /\ \/ Like(r.nombre, filtro)
               \/ Like(r.apellidos, filtro)
               \/ ColLike(r.telefono, filtro)
               \/ ColLike(r.correo, filtro)
            /\ solo_confirmados => r.asistira = 1 })

\* The two CASE expressions of the aggregate query.
CaseExpr(r, k) ==
    IF r.asistira = 1 THEN (IF k = "uno" THEN 1 ELSE r.acompanantes) ELSE 0

RECURSIVE SumaCase(_, _)
SumaCase(S, k) ==
    IF S = {} THEN 0
    ELSE LET r == CHOOSE x \in S : TRUE
         IN  CaseExpr(r, k) + SumaCase(S \ {r}, k)

\* SUM(...) over the rows: NULL when there is no row.
SqlSum(S, k) == IF S = {} THEN NULL ELSE Some(SumaCase(S, k))

COALESCE(v, d) == IF v = NULL THEN Some(d) ELSE v

\* Python's `v or 0` on a fetched value (None and 0 are both falsy).
Or0(v) == IF v = NULL \/ v[1] = 0 THEN 0 ELSE v[1]

\* A plausible slip: the companions summed over every row.
contar_todos(t) ==
    LET Acomp(S) == SumaCase({ [r EXCEPT !.asistira = 1] : r \in S }, "acomp")
    IN  << Cardinality(t), Or0(SqlSum(t, "uno")), Acomp(t) >>

\* contar_totales: COUNT(*), SUM(CASE ...), COALESCE(SUM(CASE ...), 0),
\* each passed through `or 0`.
contar_totales(t) ==
    << Or0(Some(Cardinality(t))),
       Or0(SqlSum(t, "uno")),
       Or0(COALESCE(SqlSum(t, "acomp"), 0)) >>

\* ----------------------------------------------------------------- state
\* db     what the store file holds besides rows (sqlite_master, journal mode)
\* tabla  the rows of invitados
\* seq    sqlite_sequence: the largest id AUTOINCREMENT has handed out
\* now    the wall clock, CURRENT_TIMESTAMP
\* last   the most recent operation: its name, the id it was given or
\*        assigned (0 when none), what it surfaced to the user, and how many
\*        of the connections it opened it had not closed when it ended
\* df     the DataFrame the most recent listar_invitados returned
\* kpi    the triple the most recent contar_totales returned
Outcome(op, id, signal, abiertas) ==
    [op |-> op, id |-> id, signal |-> signal, abiertas |-> abiertas]

Init ==
    /\ db = EmptyStore
    /\ tabla = {}
    /\ seq = 0
    /\ now = 0
    /\ last = Outcome("none", 0, "ok", 0)
    /\ df = <<>>
    /\ kpi = <<>>

\* The selectbox of both forms.
Opciones == {"No sabe/No", "Si"}

\* The clock advances between operations.
Tick ==
    /\ now < MaxClock
    /\ now' = now + 1
    /\ UNCHANGED <<db, tabla, seq, last, df, kpi>>

\* app.py line 104: every script run starts with init_db().
InitDb ==
    /\ db' = init_db(db)
    /\ last' = Outcome("init_db", 0, "ok", 0)
    /\ df' = <<>>
    /\ kpi' = <<>>
    /\ UNCHANGED <<tabla, seq, now>>

\* setup_db.py main(): executescript(SCHEMA_SQL), close in `finally`.
SetupMain ==
    /\ db' = SCHEMA_SQL(db)
    /\ last' = Outcome("setup_db", 0, "ok", 0)
    /\ df' = <<>>
    /\ kpi' = <<>>
    /\ UNCHANGED <<tabla, seq, now>>

\* A plausible slip: the form handler without its required-field check.
AltaSinValidar(nombre, apellidos, telefono, correo, asistira, acompanantes, falla) ==
    /\ db.tabla
    /\ ~falla
    /\ seq < MaxId
    /\ tabla' = insertar_invitado(tabla, seq + 1, now, nombre, apellidos,
                                  telefono, correo, asistira = "Si",
                                  acompanantes)
    /\ seq' = seq + 1
    /\ last' = Outcome("insert", seq + 1, "ok", 0)
    /\ df' = <<>>
    /\ kpi' = <<>>
    /\ UNCHANGED <<db, now>>

\* The "Alta rapida" form, submitted.  `falla`: the INSERT raises (the store
\* is locked or unavailable); the transaction rolls back, the exception leaves
\* insertar_invitado before its conn.close().
AltaSubmit(nombre, apellidos, telefono, correo, asistira, acompanantes, falla) ==
    /\ db.tabla
    /\ df' = <<>>
    /\ kpi' = <<>>
    /\ UNCHANGED <<db, now>>
    /\ IF strip(nombre) = <<>> \/ strip(apellidos) = <<>>
       THEN /\ last' = Outcome("insert", 0, "ValidationError", 0)
            /\ UNCHANGED <<tabla, seq>>
       ELSE IF falla
       THEN /\ last' = Outcome("insert", 0, "OperationalError", 1)
            /\ UNCHANGED <<tabla, seq>>
       ELSE /\ seq < MaxId
            /\ tabla' = insertar_invitado(tabla, seq + 1, now, nombre,
                                          apellidos, telefono, correo,
                                          asistira = "Si", acompanantes)
            /\ seq' = seq + 1
            /\ last' = Outcome("insert", seq + 1, "ok", 0)

\* "Guardar cambios" in the expander of a listed row.  The row comes from the
\* DataFrame of some session's page, so id_ is any id that was ever listed,
\* whether or not the row is still stored.
GuardarCambios(id_, nombre, apellidos, telefono, correo, asistira, acompanantes, falla) ==
    /\ db.tabla
    /\ id_ \in 1..seq
    /\ df' = <<>>
    /\ kpi' = <<>>
    /\ UNCHANGED <<db, seq, now>>
    /\ IF strip(nombre) = <<>> \/ strip(apellidos) = <<>>
       THEN /\ last' = Outcome("update", id_, "ValidationError", 0)
            /\ UNCHANGED tabla
       ELSE IF falla
       THEN /\ last' = Outcome("update", id_, "OperationalError", 1)
            /\ UNCHANGED tabla
       ELSE /\ tabla' = actualizar_invitado(tabla, db.triggers, now, id_,
                                            nombre, apellidos, telefono,
                                            correo, asistira = "Si",
                                            acompanantes)
            /\ last' = Outcome("update", id_, "ok", 0)

\* "Eliminar" in the expander of a listed row; reports "Invitado eliminado".
Eliminar(id_, falla) ==
    /\ db.tabla
    /\ id_ \in 1..seq
    /\ df' = <<>>
    /\ kpi' = <<>>
    /\ UNCHANGED <<db, seq, now>>
    /\ IF falla
       THEN /\ last' = Outcome("delete", id_, "OperationalError", 1)
            /\ UNCHANGED tabla
       ELSE /\ tabla' = eliminar_invitado(tabla, id_)
            /\ last' = Outcome("delete", id_, "ok", 0)

\* The main table (and the CSV button): listar_invitados opens one connection
\* as `conn`, a second one for read_sql_query, and closes neither.
Listar(filtro_texto, solo_confirmados) ==
    /\ db.tabla
    /\ df' = listar_invitados(tabla, filtro_texto, solo_confirmados)
    /\ last' = Outcome("list", 0, "ok", 2)
    /\ kpi' = <<>>
    /\ UNCHANGED <<db, tabla, seq, now>>

\* The KPI row.
ContarTotales ==
    /\ db.tabla
    /\ kpi' = contar_totales(tabla)
    /\ last' = Outcome("totals", 0, "ok", 0)
    /\ df' = <<>>
    /\ UNCHANGED <<db, tabla, seq, now>>

\* ---------------------------------------------------------------- inputs
\* What the forms are given in the timing-oriented specification: a blank or
\* a padded name; companions within the widget's 0..20.
Nombres == { <<>>, <<" ", "a">> }
Apellidos == { <<"b", " ">> }
Telefonos == { <<>> }
Correos == { <<>> }
Acomps == { 0, 2 }
Filtros == { <<>>, <<"a">> }

\* What they are given in the text-oriented specification.
NombresTxt == { <<"a">>, <<"A", "b", " ">> }
ApellidosTxt == { <<"a">>, <<" ", "A">> }
TelefonosTxt == { <<>>, <<" ">>, <<"5">> }
CorreosTxt == { <<>> }
AcompsTxt == { 0 }
FiltrosTxt == { <<>>, <<" ">>, <<"A">>, <<"a", "B">>, <<"_">>, <<" ", "5">> }

\* What they are given in the required-field specification, where the store
\* is set up by either script.
NombresVal == { <<>>, <<" ">>, <<" ", "a">>, <<"a", " ", "b">> }
ApellidosVal == { <<>>, <<" ", " ">>, <<"b", " ">> }
AcompsVal == { 0 }
FiltrosVal == { <<>> }

Operations(N, A, T, C, K, F) ==
    \/ InitDb
    \/ \E f \in F, solo \in BOOLEAN : Listar(f, solo)
    \/ ContarTotales
    \/ \E n \in N, a \in A, t \in T, c \in C, s \in Opciones, k \in K,
          falla \in BOOLEAN :
          AltaSubmit(n, a, t, c, s, k, falla)
    \/ \E i \in 1..MaxId, n \in N, a \in A, t \in T, c \in C, s \in Opciones,
          k \in K, falla \in BOOLEAN :
          GuardarCambios(i, n, a, t, c, s, k, falla)
    \/ \E i \in 1..MaxId, falla \in BOOLEAN : Eliminar(i, falla)

Next == Tick \/ Operations(Nombres, Apellidos, Telefonos, Correos, Acomps, Filtros)

Spec == Init /\ [][Next]_vars

NextTxt ==
    Operations(NombresTxt, ApellidosTxt, TelefonosTxt, CorreosTxt, AcompsTxt,
               FiltrosTxt)

SpecTxt == Init /\ [][NextTxt]_vars

NextVal ==
    \/ SetupMain
    \/ Operations(NombresVal, ApellidosVal, Telefonos, Correos, AcompsVal,
               FiltrosVal)

SpecVal == Init /\ [][NextVal]_vars

\* ------------------------------------------------- vocabulary of the claims
Ids(t) == { r.id : r \in t }

\* The step is one run of the operation `op` (every operation records itself
\* in `last` and leaves the clock alone; Tick leaves `last` alone).
IsStep(op) == last'.op = op /\ now' = now

\* The operation reached the store and came back without an exception.
Reached(signal) == signal \notin {"ValidationError", "OperationalError"}

\* x occurs in y as a contiguous run of characters, ignoring case.
IsSubstring(x, y) ==
    \E i \in 1..(Len(y) + 1) :
        /\ i + Len(x) - 1 <= Len(y)
        /\ \A j \in 1..Len(x) : Fold(x[j]) = Fold(y[i + j - 1])

\* The row matches the quick-search text.
Matches(r, x) ==
    \/ IsSubstring(x, r.nombre)
    \/ IsSubstring(x, r.apellidos)
    \/ r.telefono # NULL /\ IsSubstring(x, r.telefono[1])
    \/ r.correo # NULL /\ IsSubstring(x, r.correo[1])

StrLeq(a, b) == a = b \/ StrLess(a, b)

\* q is in the order last_name, first_name, id descending.
Ordered(q) ==
    \A i, j \in 1..Len(q) :
        i < j =>
            /\ StrLeq(q[i].apellidos, q[j].apellidos)
            /\ q[i].apellidos = q[j].apellidos =>
                   StrLeq(q[i].nombre, q[j].nombre)
            /\ (q[i].apellidos = q[j].apellidos /\ q[i].nombre = q[j].nombre) =>
                   q[i].id > q[j].id

\* The sequence q lists exactly the rows of the set S, each once.
ListsExactly(q, S) ==
    /\ { q[i] : i \in 1..Len(q) } = S
    /\ Len(q) = Cardinality(S)

RECURSIVE SumCompanions(_)
SumCompanions(S) ==
    IF S = {} THEN 0
    ELSE LET r == CHOOSE x \in S : TRUE
         IN  r.acompanantes + SumCompanions(S \ {r})

Confirmed(t) == { r \in t : r.asistira = 1 }

\* An optional field as the insert contract stores it: trimmed, null if empty.
NullIfEmpty(x) == IF strip(x) = <<>> THEN NULL ELSE Some(strip(x))

\* ------------------------------------------------------------------ claims

\* C1: an update whose id matches no stored guest signals NotFound and leaves
\* every row unchanged; it never returns as a silent success.
C1_UpdateAbsentSignalsNotFound ==
    [][ (/\ IsStep("update")
         /\ last'.id \notin Ids(tabla)
         /\ Reached(last'.signal))
        => (last'.signal = "NotFound" /\ tabla' = tabla) ]_vars

\* C2: a delete that affects zero rows (the id was deleted before and not
\* created again) signals NotFound.
C2_DeleteAbsentSignalsNotFound ==
    [][ (/\ IsStep("delete")
         /\ last'.id \notin Ids(tabla)
         /\ Reached(last'.signal))
        => last'.signal = "NotFound" ]_vars

\* C3: a successful update leaves updated_at of the row equal to the clock
\* and not below its former value, though the UPDATE statement does not set
\* it; listing and totals change updated_at of no row.
C3_UpdatedAtRefreshed ==
    [][ /\ (IsStep("update") /\ last'.signal = "ok") =>
               \A r \in tabla :
                   r.id = last'.id =>
                       \E q \in tabla' :
                           /\ q.id = r.id
                           /\ q.updated_at = now
                           /\ q.updated_at >= r.updated_at
        /\ (IsStep("list") \/ IsStep("totals")) =>
               /\ Ids(tabla') = Ids(tabla)
               /\ \A r \in tabla : \E q \in tabla' :
                      q.id = r.id /\ q.updated_at = r.updated_at ]_vars

\* C3 witness: a stored row was updated after the clock had moved on from the
\* time it was created.
C3_Witness ==
    /\ last.op = "update"
    /\ last.signal = "ok"
    /\ \E r \in tabla :
           r.id = last.id /\ r.created_at < now /\ r.updated_at = now

\* C4: listing returns exactly the rows in which the trimmed filter occurs,
\* ignoring case, in first_name, last_name, phone or email (every row for an
\* empty filter), only confirmed rows when confirmed_only is set, ordered by
\* last_name, then first_name, then id descending.
C4_ListFilterAndOrder ==
    [][ \A f \in FiltrosTxt, solo \in BOOLEAN :
            Listar(f, solo) =>
                /\ ListsExactly(df',
                       { r \in tabla : /\ Matches(r, strip(f))
                                       /\ solo => r.asistira = 1 })
                /\ Ordered(df') ]_vars

\* C5: totals returns (rows, confirmed rows, companions of confirmed rows),
\* three integers, (0, 0, 0) on an empty table.
C5_Totals ==
    last.op = "totals" =>
        /\ kpi = << Cardinality(tabla),
                    Cardinality(Confirmed(tabla)),
                    SumCompanions(Confirmed(tabla)) >>
        /\ \A i \in 1..3 : kpi[i] \in Nat
        /\ tabla = {} => kpi = <<0, 0, 0>>

\* C5 witness: totals over a table with a confirmed guest who brings
\* companions and an unconfirmed guest who would bring some.
C5_Witness ==
    /\ last.op = "totals"
    /\ kpi[3] > 0
    /\ \E r \in tabla : r.asistira = 0 /\ r.acompanantes > 0

\* C6: a valid insert adds exactly one row to the listing; the row has a fresh
\* id, the trimmed strings, null for an empty optional field, and the given
\* will_attend and companion_count.
C6_InsertStoresRow ==
    [][ \A n \in NombresTxt, a \in ApellidosTxt, t \in TelefonosTxt,
           c \in CorreosTxt, s \in Opciones, k \in AcompsTxt :
            (/\ AltaSubmit(n, a, t, c, s, k, FALSE)
             /\ strip(n) # <<>>
             /\ strip(a) # <<>>)
            => /\ Len(listar_invitados(tabla', <<>>, FALSE))
                   = Len(listar_invitados(tabla, <<>>, FALSE)) + 1
               /\ \E r \in tabla' \ tabla :
                      /\ tabla' = tabla \cup {r}
                      /\ r.id \notin Ids(tabla)
                      /\ r.nombre = strip(n)
                      /\ r.apellidos = strip(a)
                      /\ r.telefono = NullIfEmpty(t)
                      /\ r.correo = NullIfEmpty(c)
                      /\ r.asistira = (IF s = "Si" THEN 1 ELSE 0)
                      /\ r.acompanantes = k ]_vars

\* C7: the insert form answers a blank first_name or last_name with a
\* validation error and stores nothing, and no stored row ever has a blank
\* first_name or last_name, also after updates.
C7_RequiredNames ==
    /\ [](\A r \in tabla : strip(r.nombre) # <<>> /\ strip(r.apellidos) # <<>>)
    /\ [][ \A n \in NombresVal, a \in ApellidosVal, t \in Telefonos,
              c \in Correos, s \in Opciones, k \in AcompsVal,
              falla \in BOOLEAN :
               (/\ AltaSubmit(n, a, t, c, s, k, falla)
                /\ (strip(n) = <<>> \/ strip(a) = <<>>))
               => (last'.signal = "ValidationError" /\ tabla' = tabla) ]_vars

\* C7 witness: the form was refused while guests were already stored.
C7_Witness ==
    /\ last.op = "insert"
    /\ last.signal = "ValidationError"
    /\ tabla # {}

\* C8: every operation has closed every connection it opened when it ends.
C8_NoOpenConnection == last.abiertas = 0

AppliedInit(d) == d.tabla /\ d.triggers = {TrgName}
AppliedMain(d) ==
    AppliedInit(d) /\ d.indices = LookupIndexes /\ d.journal = "wal"

C10_UpdateFrame ==
    [][ (IsStep("update") /\ last'.signal = "ok") =>
            /\ Cardinality(tabla') = Cardinality(tabla)
            /\ Ids(tabla') = Ids(tabla)
            /\ \A r \in tabla :
                   IF r.id = last'.id
                   THEN \E q \in tabla' :
                            q.id = r.id /\ q.created_at = r.created_at
                   ELSE r \in tabla' ]_vars

\* C10 witness: a row was updated while another row, last modified at an
\* earlier time, was stored beside it.
C10_Witness ==
    /\ last.op = "update"
    /\ last.signal = "ok"
    /\ \E r, o \in tabla :
           /\ r.id = last.id
           /\ o.id # r.id
           /\ r.updated_at = now
           /\ o.updated_at < now

====
